---- MODULE Spec2Model ----
(***************************************************************************)
(* folders_synchronization.py: a one-way mirror of a source directory tree *)
(* onto a replica tree (sync_folders), driven by a `schedule` job that     *)
(* main() registers and then polls once a second.                          *)
(*                                                                         *)
(* A directory tree is a function from the relative paths that exist in it *)
(* (sequences of entry names) to entries; the two roots are implicit.      *)
(* filecmp.dircmp, shutil                                                  *)
(* and the schedule package are modelled by what the calls in the source   *)
(* do: dircmp with its default ignore list and its shallow (type, size,    *)
(* mtime) file comparison, copy2 copying content, mtime and mode bits,     *)
(* copytree copying a whole subtree, and a job whose next run is set to    *)
(* now + interval when it is registered and again when it returns.         *)
(*                                                                         *)
(* Spec takes every pair of trees within the bounds, with runs that take   *)
(* no time; SpecSched takes small trees, every interval and runs that take *)
(* time; SpecStop adds an operator who sends SIGINT or SIGTERM; SpecLink   *)
(* starts from trees that hold a cyclic symbolic link.                     *)
(***************************************************************************)
EXTENDS Integers, Sequences, FiniteSets, TLC

\* ------------------------------------------------------------- bounds
\* Most entries the source tree and the replica tree hold before main starts.
MaxSrcEntries == 2
MaxRplEntries == 2
\* The clock stops advancing here (seconds since the process was launched).
MaxTime == 5
\* --interval is drawn from 1..MaxInterval.
MaxInterval == 2
\* Most symbolic links the system follows while resolving one path; a path that
\* needs more fails with ELOOP (40 on Linux).
MaxSymlinks == 2

\* Entry names in lexicographic order; ".git" is one of filecmp.DEFAULT_IGNORES.
NameOrder == <<".git", "a", "b">>
Names == {NameOrder[i] : i \in DOMAIN NameOrder}
DEFAULT_IGNORES == {".git"}
\* File contents, with the size in bytes of each, and modification times.
Contents == {"v1", "v2"}
Size(c) == IF c \in {"v1", "v2"} THEN 2 ELSE 0
Times == {1, 2}

MaxDepth == IF MaxSrcEntries > MaxRplEntries THEN MaxSrcEntries ELSE MaxRplEntries
Paths == UNION {[1..d -> Names] : d \in 1..MaxDepth}

\* ------------------------------------------------------------ entries
None == [kind |-> "none", content |-> "", mtime |-> 0, ro |-> FALSE]
Dir == [kind |-> "dir", content |-> "", mtime |-> 0, ro |-> FALSE]
File(c, m, r) == [kind |-> "file", content |-> c, mtime |-> m, ro |-> r]
\* A symbolic link to the root directory of the tree it is in (ln -s . loop).
Link == [kind |-> "link", content |-> "", mtime |-> 0, ro |-> FALSE]
\* The files the operator may have left: two source files that differ in content
\* and in mtime; replica files equal to the first, or differing from it in content,
\* in mtime, or in both and read-only.  Against the two source files they give
\* every outcome of the comparison, with a writable and with a read-only replica.
SrcFiles == {File("v1", 1, FALSE), File("v2", 2, FALSE)}
RplFiles == {File("v1", 1, FALSE), File("v2", 1, FALSE), File("v1", 2, FALSE), File("v2", 2, TRUE)}
EmptyTree == [p \in {} |-> None]

Parent(p) == SubSeq(p, 1, Len(p) - 1)
\* q is p or lies below p.
Under(p, q) == Len(q) >= Len(p) /\ SubSeq(q, 1, Len(p)) = p
\* os.path.join(dir, name)
Join(d, n) == Append(d, n)
\* The entry at a path: os.stat, with None for a path that does not exist.
At(t, p) == IF p \in DOMAIN t THEN t[p] ELSE None
Put(t, p, e) == [q \in DOMAIN t \cup {p} |-> IF q = p THEN e ELSE t[q]]
NumEntries(t) == Cardinality(DOMAIN t)
\* Where an entry can be created: a free name in the root or in a directory.
Free(t) == {q \in Paths \ DOMAIN t : Len(q) = 1 \/ At(t, Parent(q)) = Dir}

\* ------------------------------------------------- path resolution
HasLinks(t) == \E q \in DOMAIN t : t[q].kind = "link"
\* Resolve the components `rest` from directory `cur`, n links followed so far.
RECURSIVE Walk(_, _, _, _)
Walk(t, cur, rest, n) ==
    IF rest = <<>> THEN [ok |-> TRUE, path |-> cur]
    ELSE LET q == Append(cur, Head(rest))
         IN  IF At(t, q).kind = "link"
             THEN IF n >= MaxSymlinks THEN [ok |-> FALSE, path |-> <<>>]
                  ELSE Walk(t, <<>>, Tail(rest), n + 1)
             ELSE Walk(t, q, Tail(rest), n)
\* Where the path p leads once every link in it is followed; not ok: ELOOP.
RealPath(t, p) == IF HasLinks(t) THEN Walk(t, <<>>, p, 0) ELSE [ok |-> TRUE, path |-> p]
\* os.stat(p), which follows links (os.path.isdir, dircmp.phase2); None when
\* the path does not exist or cannot be resolved.
Stat(t, p) ==
    LET c == RealPath(t, p)
    IN  IF ~c.ok THEN None ELSE IF c.path = <<>> THEN Dir ELSE At(t, c.path)
\* Where the entry named by p is: the links in its directory followed, its own
\* name not (os.remove, the entries os.listdir reports).
Where(t, p) == Join(RealPath(t, Parent(p)).path, p[Len(p)])

\* ---------------------------------------------------- filecmp.dircmp
\* os.listdir(d) minus hide and ignore, sorted (dircmp.phase0).
Listing(t, d) ==
    LET c == RealPath(t, d)
    IN  {n \in Names : c.ok /\ At(t, Join(c.path, n)) # None /\ n \notin DEFAULT_IGNORES}
Sorted(S) == SelectSeq(NameOrder, LAMBDA n : n \in S)
\* filecmp._sig: (type, size, mtime); the type is "file" for both here.
Sig(f) == <<f.kind, Size(f.content), f.mtime>>
\* filecmp.cmp(f1, f2, shallow=True)
Cmp(f1, f2) ==
    IF Sig(f1) = Sig(f2) THEN TRUE
    ELSE IF Size(f1.content) # Size(f2.content) THEN FALSE
    ELSE f1.content = f2.content
\* dircmp(source, replica) for the directory d of both trees: phases 1 to 3.
DirCmp(s, r, d) ==
    LET left == Listing(s, d)
        right == Listing(r, d)
        common == left \cap right
        cdirs == {n \in common : Stat(s, Join(d, n)).kind = "dir" /\ Stat(r, Join(d, n)).kind = "dir"}
        cfiles == {n \in common : Stat(s, Join(d, n)).kind = "file" /\ Stat(r, Join(d, n)).kind = "file"}
        same == {n \in cfiles : Cmp(Stat(s, Join(d, n)), Stat(r, Join(d, n)))}
    IN  [left_only |-> Sorted(left \ right),
         right_only |-> Sorted(right \ left),
         common_dirs |-> Sorted(cdirs),
         common_files |-> Sorted(cfiles),
         common_funny |-> Sorted(common \ (cdirs \cup cfiles)),
         same_files |-> Sorted(same),
         diff_files |-> Sorted(cfiles \ same)]

\* -------------------------------------------------------- shutil, os
\* shutil.copy2(src, dst): content, mtime and mode bits of the source file.
Copy2(s, r, p) == Put(r, p, s[p])
\* shutil.copytree(src, dst): the directory and everything below it.
CopyTree(s, r, p) ==
    LET sub == {q \in DOMAIN s : Under(p, q)}
    IN  [q \in DOMAIN r \cup sub |-> IF q \in sub THEN s[q] ELSE r[q]]
\* shutil.rmtree(path)
RmTree(r, p) == [q \in {x \in DOMAIN r : ~Under(p, x)} |-> r[q]]
\* os.remove(path)
Remove(r, p) == [q \in DOMAIN r \ {p} |-> r[q]]
\* os.remove of a path that is not there raises FileNotFoundError, and
\* shutil.rmtree refuses a symbolic link (OSError).
RemoveFails(r, p) == At(r, Where(r, p)).kind \in {"none", "link"}
\* copy2 opens the destination for writing: PermissionError on a read-only file.
CopyFails(r, p) == At(r, p).kind = "file" /\ At(r, p).ro
SourceWrittenToo(one, s, r) == r
\* What the source directory holds once the replica directory holds r: every
\* destination is os.path.join(replica, file), so the source changes only where
\* both arguments name one directory.
SourceAfter(one, s, r) == IF one THEN r ELSE s

VARIABLES
    src,        \* the source tree
    rpl,        \* the replica tree
    srcExists,  \* os.path.exists(source)
    rplExists,  \* os.path.exists(replica)
    samePath,   \* source == replica (the two argument strings)
    sameDir,    \* the two arguments name one directory ("d" and "d/", "./d", a link)
    interval,   \* args.interval
    pc,         \* where main is
    now,        \* the clock, in seconds
    nextRun,    \* the job's next_run (-1: no job registered)
    lastRun,    \* the job's last_run (-1: never ran)
    stack,      \* the active sync_folders calls, innermost last
    exitCode,   \* the process's exit status (-1: still running)
    errLog,     \* number of logging.error calls
    runs,       \* top-level sync_folders calls started
    done,       \* top-level sync_folders calls that returned or raised
    raisedAt,   \* the path whose operation raised (<<>>: none did)
    startedAt,  \* the clock when the current or last run started
    oplog,      \* the copy and remove operations done so far, each with its run's number
    rpl0,       \* the replica tree when the current or last run started
    src0        \* the source tree when main started

vars == <<src, rpl, srcExists, rplExists, samePath, sameDir, interval, pc, now, nextRun,
          lastRun, stack, exitCode, errLog, runs, done, raisedAt, startedAt,
          oplog, rpl0, src0>>

trees == <<src, rpl>>
args == <<srcExists, rplExists, samePath, sameDir, interval>>
job == <<nextRun, lastRun>>
hist == <<runs, done, raisedAt, startedAt, oplog, rpl0>>

\* The arguments of the program, and the state before main is called.
InitArgs ==
    /\ srcExists \in BOOLEAN
    /\ rplExists \in BOOLEAN
    /\ samePath \in BOOLEAN
    /\ sameDir \in BOOLEAN
    /\ samePath => sameDir
    /\ sameDir => (srcExists = rplExists)
    /\ interval \in 1..MaxInterval
    /\ pc = "setup"
    /\ now = 0
    /\ nextRun = -1
    /\ lastRun = -1
    /\ stack = <<>>
    /\ exitCode = -1
    /\ errLog = 0
    /\ runs = 0
    /\ done = 0
    /\ raisedAt = <<>>
    /\ startedAt = -1
    /\ oplog = <<>>
    /\ rpl0 = EmptyTree
    /\ src0 = EmptyTree

\* The trees are whatever the operator left there before launching the program:
\* they start empty and the operator fills them (EnvCreateSrc, EnvCreateRpl).
\* The interval is the longest one; SpecSched takes every interval.
Init ==
    /\ InitArgs
    /\ interval = MaxInterval
    /\ src = EmptyTree
    /\ rpl = EmptyTree

\* The trees with at most one entry, in the root.
OneEntryTrees(files) ==
    {EmptyTree} \cup {Put(EmptyTree, <<n>>, e) : n \in Names, e \in files \cup {Dir}}

\* For the scheduling loop: every pair of trees of at most one entry each.
InitSched ==
    /\ InitArgs
    /\ src \in (IF srcExists THEN OneEntryTrees(SrcFiles) ELSE {EmptyTree})
    /\ rpl \in (IF sameDir THEN {src}
                ELSE IF rplExists THEN OneEntryTrees(RplFiles) ELSE {EmptyTree})

\* ------------------------------------------------- before main starts
\* The operator puts an entry into the source directory.  When both arguments
\* name one directory, it is seen as source and as replica.
EnvCreateSrc ==
    /\ pc = "setup"
    /\ srcExists
    /\ NumEntries(src) < MaxSrcEntries
    /\ \E p \in Free(src), e \in SrcFiles \cup {Dir} : src' = Put(src, p, e)
    /\ rpl' = IF sameDir THEN src' ELSE rpl
    /\ UNCHANGED <<args, pc, now, job, stack, exitCode, errLog, hist, src0>>

\* The operator puts an entry into the replica directory.
EnvCreateRpl ==
    /\ pc = "setup"
    /\ rplExists
    /\ ~sameDir
    /\ NumEntries(rpl) < MaxRplEntries
    /\ \E p \in Free(rpl), e \in RplFiles \cup {Dir} : rpl' = Put(rpl, p, e)
    /\ UNCHANGED <<src, args, pc, now, job, stack, exitCode, errLog, hist, src0>>

\* ----------------------------------------------------------- main
\* main is called: logging is configured, "Starting initial synchronization."
Launch ==
    /\ pc = "setup"
    /\ pc' = "schedule"
    /\ src0' = src
    /\ UNCHANGED <<trees, args, now, job, stack, exitCode, errLog, hist>>

ScheduleFromFireTime(t, started, iv) == started + iv
\* Job.next_run as schedule sets it, when the job is registered and again when
\* the job function has returned: the clock at that moment plus the interval.
ScheduleNextRun(t, started, iv) == t + iv

\* schedule.every(interval).seconds.do(sync_folders, source, replica)
Schedule ==
    /\ pc = "schedule"
    /\ nextRun' = ScheduleNextRun(now, now, interval)
    /\ pc' = "check"
    /\ UNCHANGED <<trees, args, now, lastRun, stack, exitCode, errLog, hist, src0>>

\* A path does not exist: FileNotFoundError, caught by `except Exception`, which
\* logs the error and calls exit().
CheckMissing ==
    /\ pc = "check"
    /\ ~srcExists \/ ~rplExists
    /\ errLog' = errLog + 1
    /\ pc' = "exit"
    /\ exitCode' = 0
    /\ UNCHANGED <<trees, args, now, job, stack, hist, src0>>

\* source == replica: the error is logged and exit() is called.
CheckSame ==
    /\ pc = "check"
    /\ srcExists /\ rplExists
    /\ samePath
    /\ errLog' = errLog + 1
    /\ pc' = "exit"
    /\ exitCode' = 0
    /\ UNCHANGED <<trees, args, now, job, stack, hist, src0>>

\* Validation passes: main enters `while True`.
CheckOk ==
    /\ pc = "check"
    /\ srcExists /\ rplExists
    /\ ~samePath
    /\ pc' = "loop"
    /\ UNCHANGED <<trees, args, now, job, stack, exitCode, errLog, hist, src0>>

\* ---------------------------------------------------- sync_folders
CopyItemsLeftOnly(c) == c.left_only
CopyItemsCommonFiles(c) == c.left_only \o c.common_files
\* The names the first loop copies.
CopyItems(c) == c.left_only \o c.diff_files
RemoveItemsAndSame(c) == c.right_only \o c.same_files
\* The names the last loop removes.
RemoveItems(c) == c.right_only
\* A call sync_folders(source/d, replica/d): the comparison is evaluated when the
\* first loop reads left_only and diff_files, before anything is changed.
Frame(s, r, d) ==
    LET c == DirCmp(s, r, d)
    IN  [dir |-> d, copy |-> CopyItems(c), dirs |-> c.common_dirs, rm |-> RemoveItems(c)]

Top == stack[Len(stack)]
SetTop(f) == [stack EXCEPT ![Len(stack)] = f]
Running == pc = "run" /\ stack # <<>>

\* Job.should_run: the job is due.
ShouldRun == nextRun >= 0 /\ now >= nextRun

InLoopOrRun == pc \in {"loop", "run"}
\* main's loop is at schedule.run_pending(): the previous call has returned.
AtRunPending == pc = "loop"

\* schedule.run_pending() finds the job due and calls sync_folders(source, replica).
RunPendingDue ==
    /\ AtRunPending
    /\ ShouldRun
    /\ pc' = "run"
    /\ stack' = <<Frame(src, rpl, <<>>)>>
    /\ runs' = runs + 1
    /\ startedAt' = now
    /\ rpl0' = rpl
    /\ UNCHANGED <<trees, args, now, job, exitCode, errLog, done, raisedAt, oplog, src0>>

\* schedule.run_pending() finds nothing due and returns.
RunPendingIdle ==
    /\ AtRunPending
    /\ ~ShouldRun
    /\ pc' = "sleep"
    /\ UNCHANGED <<trees, args, now, job, stack, exitCode, errLog, hist, src0>>

\* One iteration of the first loop, on a directory: shutil.copytree.
CopyDirStep ==
    /\ Running
    /\ Top.copy # <<>>
    /\ LET p == Join(Top.dir, Head(Top.copy))
       IN  /\ Stat(src, p).kind = "dir"
           /\ rpl' = CopyTree(src, rpl, p)
           /\ src' = SourceAfter(sameDir, src, rpl')
           /\ oplog' = Append(oplog, [run |-> runs, op |-> "copytree", path |-> p])
    /\ stack' = SetTop([Top EXCEPT !.copy = Tail(@)])
    /\ UNCHANGED <<args, pc, now, job, exitCode, errLog, runs, done, raisedAt,
                   startedAt, rpl0, src0>>

\* One iteration of the first loop, on a file: shutil.copy2.
CopyFileStep ==
    /\ Running
    /\ Top.copy # <<>>
    /\ LET p == Join(Top.dir, Head(Top.copy))
       IN  /\ Stat(src, p).kind # "dir"
           /\ ~CopyFails(rpl, p)
           /\ rpl' = Copy2(src, rpl, p)
           /\ src' = SourceAfter(sameDir, src, rpl')
           /\ oplog' = Append(oplog, [run |-> runs, op |-> "copy2", path |-> p])
    /\ stack' = SetTop([Top EXCEPT !.copy = Tail(@)])
    /\ UNCHANGED <<args, pc, now, job, exitCode, errLog, runs, done, raisedAt,
                   startedAt, rpl0, src0>>

\* shutil.copy2 raises.  Nothing in sync_folders, in schedule or around main's
\* loop catches it: every call is unwound and the interpreter exits with status 1
\* after printing the traceback; logging.error is not called.
CopyRaise ==
    /\ Running
    /\ Top.copy # <<>>
    /\ LET p == Join(Top.dir, Head(Top.copy))
       IN  /\ Stat(src, p).kind # "dir"
           /\ CopyFails(rpl, p)
           /\ raisedAt' = p
    /\ stack' = <<>>
    /\ pc' = "exit"
    /\ exitCode' = 1
    /\ done' = done + 1
    /\ UNCHANGED <<trees, args, now, job, errLog, runs, startedAt, oplog, rpl0, src0>>

\* One iteration of the second loop: the recursive call.
Recurse ==
    /\ Running
    /\ Top.copy = <<>>
    /\ Top.dirs # <<>>
    /\ stack' = Append(SetTop([Top EXCEPT !.dirs = Tail(@)]),
                       Frame(src, rpl, Join(Top.dir, Head(Top.dirs))))
    /\ UNCHANGED <<trees, args, pc, now, job, exitCode, errLog, hist, src0>>

RemoveAnyTime == Top.rm # <<>>
\* The innermost call is in its third loop: the first two loops have finished.
AtRemoveLoop == Top.copy = <<>> /\ Top.dirs = <<>> /\ Top.rm # <<>>

\* One iteration of the third loop: shutil.rmtree or os.remove.
RemoveStep ==
    /\ Running
    /\ AtRemoveLoop
    /\ LET p == Join(Top.dir, Head(Top.rm))
       IN  /\ ~RemoveFails(rpl, p)
           /\ IF Stat(rpl, p).kind = "dir"
              THEN /\ rpl' = RmTree(rpl, Where(rpl, p))
                   /\ oplog' = Append(oplog, [run |-> runs, op |-> "rmtree", path |-> p])
              ELSE /\ rpl' = Remove(rpl, Where(rpl, p))
                   /\ oplog' = Append(oplog, [run |-> runs, op |-> "remove", path |-> p])
    /\ src' = SourceAfter(sameDir, src, rpl')
    /\ stack' = SetTop([Top EXCEPT !.rm = Tail(@)])
    /\ UNCHANGED <<args, pc, now, job, exitCode, errLog, runs, done, raisedAt,
                   startedAt, rpl0, src0>>

FrameDone == Top.copy = <<>> /\ Top.dirs = <<>> /\ Top.rm = <<>>

\* A recursive call returns to its caller's second loop.
ReturnInner ==
    /\ Running
    /\ FrameDone
    /\ Len(stack) > 1
    /\ stack' = SubSeq(stack, 1, Len(stack) - 1)
    /\ UNCHANGED <<trees, args, pc, now, job, exitCode, errLog, hist, src0>>

\* The top-level call returns to Job.run, which sets last_run and next_run;
\* run_pending returns and main goes to time.sleep(1).
JobReturn ==
    /\ Running
    /\ FrameDone
    /\ Len(stack) = 1
    /\ stack' = <<>>
    /\ lastRun' = now
    /\ nextRun' = ScheduleNextRun(now, startedAt, interval)
    /\ done' = done + 1
    /\ pc' = "sleep"
    /\ UNCHANGED <<trees, args, now, exitCode, errLog, runs, raisedAt, startedAt,
                   oplog, rpl0, src0>>

\* time.sleep(1)
Sleep ==
    /\ pc = "sleep"
    /\ now < MaxTime
    /\ now' = now + 1
    /\ pc' = "loop"
    /\ UNCHANGED <<trees, args, job, stack, exitCode, errLog, hist, src0>>

\* A second passes while a run is in progress.
Tick ==
    /\ Running
    /\ now < MaxTime
    /\ now' = now + 1
    /\ UNCHANGED <<trees, args, pc, job, stack, exitCode, errLog, hist, src0>>

\* The steps of the program itself.
Program ==
    \/ Launch
    \/ Schedule
    \/ CheckMissing
    \/ CheckSame
    \/ CheckOk
    \/ RunPendingDue
    \/ RunPendingIdle
    \/ CopyDirStep
    \/ CopyFileStep
    \/ CopyRaise
    \/ Recurse
    \/ RemoveStep
    \/ ReturnInner
    \/ JobReturn
    \/ Sleep

\* Every directory tree, with runs that take no time: sync_folders never reads
\* the clock, so what a run does to the trees does not depend on how long it takes.
Next ==
    \/ EnvCreateSrc
    \/ EnvCreateRpl
    \/ Program

Spec == Init /\ [][Next]_vars

\* The program with runs that take time, started on each pair of small trees.
NextSched ==
    \/ Program
    \/ Tick

SpecSched == InitSched /\ [][NextSched]_vars

\* -------------------------------------------------- symbolic links
\* The trees of T with a link to their own root added under the name n.
WithLink(T, n) == {Put(t, <<n>>, Link) : t \in {u \in T : <<n>> \notin DOMAIN u}}

\* Both roots hold a cyclic directory link under the same name, and at most one
\* other entry each (so no copy and no copytree ever meets a link).
InitLink ==
    /\ InitArgs
    /\ \E n \in Names \ DEFAULT_IGNORES :
          /\ src \in (IF srcExists THEN WithLink(OneEntryTrees(SrcFiles), n) ELSE {EmptyTree})
          /\ rpl \in (IF sameDir THEN {src}
                      ELSE IF rplExists THEN WithLink(OneEntryTrees(RplFiles), n)
                      ELSE {EmptyTree})

\* shutil.rmtree or os.remove raises: as for copy2, nothing catches it.
RemoveRaise ==
    /\ Running
    /\ AtRemoveLoop
    /\ LET p == Join(Top.dir, Head(Top.rm))
       IN  /\ RemoveFails(rpl, p)
           /\ raisedAt' = p
    /\ stack' = <<>>
    /\ pc' = "exit"
    /\ exitCode' = 1
    /\ done' = done + 1
    /\ UNCHANGED <<trees, args, now, job, errLog, runs, startedAt, oplog, rpl0, src0>>

\* The program on trees that hold a cyclic link.
NextLink ==
    \/ Program
    \/ RemoveRaise

SpecLink == InitLink /\ [][NextLink]_vars

\* --------------------------------------------------------- signals
\* SIGINT and SIGTERM.  The program installs no handler and catches no
\* KeyboardInterrupt: either signal ends the process wherever it is, with the
\* signal's status (128 + the signal's number, as a shell reports it).
Signals == {2, 15}
\* What an interrupted copy2 can leave at its destination: the file opened for
\* writing and truncated, nothing written yet and no metadata copied.
Partial == File("", 0, FALSE)

\* A signal arrives while main is in its loop, between two operations of a run
\* or outside a run: the calls in progress are abandoned where they are.
Interrupt ==
    /\ pc \in {"loop", "sleep", "run"}
    /\ pc' = "killed"
    /\ \E sig \in Signals : exitCode' = 128 + sig
    /\ UNCHANGED <<trees, args, now, job, stack, errLog, hist, src0>>

\* A signal arrives inside shutil.copy2.
InterruptInCopy ==
    /\ Running
    /\ Top.copy # <<>>
    /\ LET p == Join(Top.dir, Head(Top.copy))
       IN  /\ Stat(src, p).kind # "dir"
           /\ ~CopyFails(rpl, p)
           /\ rpl' = Put(rpl, p, Partial)
           /\ src' = SourceAfter(sameDir, src, rpl')
    /\ pc' = "killed"
    /\ \E sig \in Signals : exitCode' = 128 + sig
    /\ UNCHANGED <<args, now, job, stack, errLog, hist, src0>>

\* The program, with an operator who may stop it at any moment.
NextStop ==
    \/ Program
    \/ Interrupt
    \/ InterruptInCopy

SpecStop == InitSched /\ [][NextStop]_vars

\* ------------------------------------------------------------- claims
\* A top-level sync_folders call has returned and none is in progress.
Completed == done >= 1 /\ raisedAt = <<>> /\ stack = <<>>
\* Both trees hold a file at p and no component of p is an ignored name.
Compared(p) == \A i \in DOMAIN p : p[i] \notin DEFAULT_IGNORES

\* A fresh dircmp of directory d and of every common directory below it finds
\* nothing source-only, replica-only, differing or of mismatched kind.
RECURSIVE Converged(_, _, _)
Converged(s, r, d) ==
    LET c == DirCmp(s, r, d)
    IN  /\ c.left_only = <<>>
        /\ c.right_only = <<>>
        /\ c.diff_files = <<>>
        /\ c.common_funny = <<>>
        /\ \A i \in DOMAIN c.common_dirs : Converged(s, r, Join(d, c.common_dirs[i]))

\* C1 (as claimed): after a run that returned, a fresh comparison of the two
\* roots finds no difference at any level.
C1_Convergence == Completed => Converged(src, rpl, <<>>)

\* C2 (as claimed): whatever the replica held before a run at a path where the
\* source holds nothing is gone when the run has returned.
C2_DeletionCorrectness ==
    Completed => \A p \in Paths : (At(rpl0, p) # None /\ At(src, p) = None) => At(rpl, p) = None

\* C3 (as claimed): a name that is a file on one side and a directory on the
\* other before a run has the source's kind and content when the run has returned.
C3_TypeMismatchResolved ==
    Completed =>
        \A p \in Paths :
            (At(src, p) # None /\ At(rpl0, p) # None /\ At(src, p).kind # At(rpl0, p).kind)
                => (At(rpl, p).kind = At(src, p).kind /\ At(rpl, p).content = At(src, p).content)

C5_Idempotence == \A i \in DOMAIN oplog : oplog[i].run = 1

\* Two runs have returned, and the first one copied and removed something.
C5_Witness ==
    /\ done >= 2
    /\ Completed
    /\ \E i \in DOMAIN oplog : oplog[i].op \in {"copy2", "copytree"}
    /\ \E i \in DOMAIN oplog : oplog[i].op \in {"remove", "rmtree"}

\* Like Converged, but for the file whose copy failed, and leaving aside names of
\* mismatched kind.
RECURSIVE SyncedExcept(_, _, _, _)
SyncedExcept(s, r, d, x) ==
    LET c == DirCmp(s, r, d)
    IN  /\ c.left_only = <<>>
        /\ c.right_only = <<>>
        /\ \A i \in DOMAIN c.diff_files : Join(d, c.diff_files[i]) = x
        /\ \A i \in DOMAIN c.common_dirs : SyncedExcept(s, r, Join(d, c.common_dirs[i]), x)

\* C6 (as claimed): when an operation of a run has failed, the run still
\* synchronizes every other source-only entry, differing file and replica-only
\* entry.
C6_FailureDoesNotAbort ==
    (raisedAt # <<>> /\ stack = <<>>) => SyncedExcept(src, rpl, <<>>, raisedAt)

\* C7 (as claimed): when a scheduled run raises, the error is logged, the process
\* keeps running with the job armed again, and only a failed startup validation
\* ends the process.
C7_SchedulerSurvives ==
    /\ raisedAt # <<>> => (errLog >= 1 /\ pc # "exit" /\ nextRun >= now)
    /\ pc = "exit" => runs = 0

\* C8 (as claimed): main goes to sleep for the first time only after a first run.
C8_FirstRunImmediate == pc = "sleep" => runs >= 1

\* C9: at most one top-level sync_folders call is active, and one is active
\* exactly while sync_folders calls are on the stack.
C9_NoOverlap ==
    /\ runs - done \in {0, 1}
    /\ (stack # <<>>) <=> (runs - done = 1)

\* A run is still in progress more than an interval after it started.
C9_Witness == stack # <<>> /\ now - startedAt > interval

\* C10: a run starts at least an interval after the previous run completed, and
\* between runs the job is armed for the completion time plus the interval.
C10_MinimumIdleGap ==
    /\ (stack # <<>> /\ lastRun >= 0) => startedAt - lastRun >= interval
    /\ (Completed /\ pc # "run") => nextRun = lastRun + interval

\* The second run is in progress after a first run that took longer than the
\* interval (the first run starts when the clock reads `interval`).
C10_Witness ==
    /\ stack # <<>>
    /\ runs = 2
    /\ lastRun - interval > interval
    /\ startedAt - lastRun >= interval

\* main has not got past its startup checks.
AtStartup == pc \in {"setup", "schedule", "check", "exit"}

\* C11 (as claimed): when the source or the replica path does not exist, main
\* never reaches its loop, never calls sync_folders and changes no tree, no job
\* is ever scheduled, and the error is reported once when main exits.
C11_MissingPathFatal ==
    (~srcExists \/ ~rplExists) =>
        /\ AtStartup
        /\ runs = 0
        /\ oplog = <<>>
        /\ nextRun = -1
        /\ pc = "exit" => errLog = 1

\* C12 (as claimed): when both arguments name one directory, main never reaches
\* its loop, never calls sync_folders and changes nothing, and the error is
\* reported when main exits.
C12_SelfMirrorRejected ==
    sameDir =>
        /\ AtStartup
        /\ runs = 0
        /\ oplog = <<>>
        /\ pc = "exit" => errLog = 1

\* C13 (as claimed): a process that ends in its startup checks has a non-zero
\* exit status, and only a process stopped by a signal has exit status 0.
C13_ExitStatus ==
    /\ (pc = "exit" /\ runs = 0) => exitCode # 0
    /\ exitCode = 0 => pc = "killed"

\* C14 (as claimed): when a signal has ended the process, no sync_folders call
\* is left with a copy, a recursive call or a removal still to do.
C14_GracefulStop ==
    pc = "killed" =>
        \A i \in DOMAIN stack :
            stack[i].copy = <<>> /\ stack[i].dirs = <<>> /\ stack[i].rm = <<>>

IsCopy(o) == o.op \in {"copy2", "copytree"}
IsRemoval(o) == o.op \in {"remove", "rmtree"}
\* The directory level an operation belongs to.
Level(o) == Parent(o.path)

\* C15: among the operations of the run in progress, a removal at a level is
\* followed at or below that level only by removals of the same level; no copy
\* at a level follows an operation below that level; no copy of a source-only
\* entry follows an overwrite at the same level; and the calls in progress are
\* nested, each caller having finished its copies.
C15_PerLevelOrder ==
    /\ \A i, j \in DOMAIN oplog :
          (i < j /\ oplog[i].run = runs /\ oplog[j].run = runs) =>
            LET a == oplog[i]
                b == oplog[j]
            IN  /\ (IsRemoval(a) /\ Under(Level(a), b.path))
                      => (IsRemoval(b) /\ Level(b) = Level(a))
                /\ ~(IsCopy(b) /\ Under(Level(b), Level(a)) /\ Level(a) # Level(b))
                /\ ~(IsCopy(a) /\ IsCopy(b) /\ Level(a) = Level(b)
                      /\ At(rpl0, a.path) # None /\ At(rpl0, b.path) = None)
    /\ \A k \in 1..(Len(stack) - 1) :
          stack[k].copy = <<>> /\ Parent(stack[k + 1].dir) = stack[k].dir

\* A run has copied an entry inside a common subdirectory and afterwards removed
\* a replica-only entry of the root.
C15_Witness ==
    \E i, j \in DOMAIN oplog :
        /\ i < j
        /\ oplog[i].run = runs /\ oplog[j].run = runs
        /\ IsCopy(oplog[i]) /\ Len(oplog[i].path) = 2
        /\ IsRemoval(oplog[j]) /\ Len(oplog[j].path) = 1

Range(q) == {q[i] : i \in DOMAIN q}
\* Every name that appears in directory d of tree t.
NamesIn(t, d) == {n \in Names : At(t, Join(d, n)) # None}
\* The names sync_folders acts on are pairwise disjoint and, with the files found
\* identical, are all the names of directory d on either side.
Classified(s, r, d) ==
    LET c == DirCmp(s, r, d)
        L == Range(c.left_only)
        R == Range(c.right_only)
        D == Range(c.common_dirs)
        F == Range(c.diff_files)
    IN  /\ L \cap R = {} /\ L \cap D = {} /\ L \cap F = {}
        /\ R \cap D = {} /\ R \cap F = {} /\ D \cap F = {}
        /\ L \cup R \cup D \cup F \cup Range(c.same_files) = NamesIn(s, d) \cup NamesIn(r, d)

\* C16 (as claimed): when a sync_folders call has just compared its directory,
\* every name on either side is source-only, replica-only, a common directory,
\* a differing file or an identical file, and in one class only.
C16_Classification ==
    (Running /\ Top = Frame(src, rpl, Top.dir)) => Classified(src, rpl, Top.dir)

C18_NoWantedLoss ==
    /\ \A i \in DOMAIN oplog : IsRemoval(oplog[i]) => At(src, oplog[i].path) = None
    /\ runs >= 1 =>
          \A p \in Paths : (At(rpl0, p) # None /\ At(src, p) # None) => At(rpl, p) # None

\* A run is in progress, has removed a replica-only entry, and an entry that the
\* source and the replica both held is still there.
C18_Witness ==
    /\ stack # <<>>
    /\ \E i \in DOMAIN oplog : oplog[i].run = runs /\ IsRemoval(oplog[i])
    /\ \E p \in Paths : At(rpl0, p) # None /\ At(src, p) # None /\ At(rpl, p) # None

\* The length of the longest path of a tree.
TreeDepth(t) == IF DOMAIN t = {} THEN 0 ELSE CHOOSE m \in 1..(MaxDepth + 1) :
    (\E p \in DOMAIN t : Len(p) = m) /\ (\A p \in DOMAIN t : Len(p) <= m)
\* The directory d is reached through a symbolic link of tree t.
ThroughLink(t, d) == \E k \in 1..Len(d) : At(t, SubSeq(d, 1, k)).kind = "link"

\* C19 (as claimed): the sync_folders calls in progress are never nested deeper
\* than the trees are, and none of them works on a directory reached through a
\* symbolic link.
C19_BoundedRecursion ==
    /\ Len(stack) <= 1 + (IF TreeDepth(src) > TreeDepth(rpl) THEN TreeDepth(src) ELSE TreeDepth(rpl))
    /\ \A k \in DOMAIN stack :
          ~ThroughLink(src, stack[k].dir) /\ ~ThroughLink(rpl, stack[k].dir)
====
